---- MODULE Spec2Model ----
(***************************************************************************)
(* Conversation orchestrator: one gateway connection, its                  *)
(* ConversationSession, the per-session ASR and TTS clients, the RAG       *)
(* client and the session registry.                                        *)
(*                                                                         *)
(* Tasks of the asyncio event loop are modelled as processes whose steps   *)
(* are the code between two suspension points (network reads and writes,   *)
(* asyncio.sleep).  Texts are sequences of one-character strings so that   *)
(* str.strip, " ".join and the sentence splitter are computed, not         *)
(* assumed.                                                                *)
(***************************************************************************)
EXTENDS Integers, Sequences, FiniteSets, TLC

\* ---------------------------------------------------------------- bounds
\* Connection attempts of other clients that may be suspended at the same
\* time between the capacity check and the insertion of their session.
MaxPending == 2
\* Sessions the registry model follows, advances of the clock, and turns
\* added to the histories.
MaxSessions == 2
MaxTicks == 2
MaxTurns == 11
\* Transcript events handled by a session whose accumulator is followed alone.
MaxHandled == 3
\* Sentences of one synthesis request.
MaxSentences == 3
\* Calls of add_audio_chunk on one streaming session.
MaxAdded == 3
\* Characters of a text given to the sentence splitter.
MaxText == 4

\* The environment supplies at most MaxInputs inputs in a run: client frames,
\* transcript events of the Transcription backend and audio chunks of the
\* Synthesis backend.
MaxInputs == 5

\* ------------------------------------------------------ program constants
enable_conversation_history == TRUE
max_session_history == 10
max_concurrent_sessions == 100
\* StreamingTTSService: max_retries, and retry_delay (0.5 s) in milliseconds.
max_retries == 3
retry_delay == 500
session_timeout_seconds == 300

\* ------------------------------------------------------------ input sets
TranscriptEvents == { [text |-> <<"a", " ">>, is_final |-> TRUE],
                      [text |-> <<" ", "c">>, is_final |-> FALSE] }
Answers == { <<>>, <<"h", ".">>, <<"h", ".", "i">> }

\* ------------------------------------------------------------------ text
Whitespace == {" "}

RECURSIVE LStrip(_)
LStrip(t) == IF t # <<>> /\ Head(t) \in Whitespace THEN LStrip(Tail(t)) ELSE t

RECURSIVE RStrip(_)
RStrip(t) ==
    IF t # <<>> /\ t[Len(t)] \in Whitespace
    THEN RStrip(SubSeq(t, 1, Len(t) - 1))
    ELSE t

Strip(t) == RStrip(LStrip(t))

RECURSIVE JoinSpace(_)
JoinSpace(ss) ==
    IF ss = <<>> THEN <<>>
    ELSE IF Len(ss) = 1 THEN ss[1]
    ELSE ss[1] \o <<" ">> \o JoinSpace(Tail(ss))

RECURSIVE NonEmpty(_)
NonEmpty(ss) ==
    IF ss = <<>> THEN <<>>
    ELSE IF Head(ss) # <<>> THEN <<Head(ss)>> \o NonEmpty(Tail(ss))
    ELSE NonEmpty(Tail(ss))

\* '.', '!', '?', the Arabic question mark and the Urdu full stop
sentence_endings == {".", "!", "?", "AQ", "UF"}

\* The character loop without the trailing remainder.
RECURSIVE SplitLoopNoRemainder(_, _, _)
SplitLoopNoRemainder(text, current_sentence, sentences) ==
    IF text = <<>>
    THEN sentences
    ELSE LET cur == Append(current_sentence, Head(text))
         IN  IF Head(text) \in sentence_endings
             THEN SplitLoopNoRemainder(Tail(text), <<>>,
                                       IF Strip(cur) # <<>>
                                       THEN Append(sentences, Strip(cur))
                                       ELSE sentences)
             ELSE SplitLoopNoRemainder(Tail(text), cur, sentences)

RECURSIVE SplitLoop(_, _, _)
SplitLoop(text, current_sentence, sentences) ==
    IF text = <<>>
    THEN IF Strip(current_sentence) # <<>>
         THEN Append(sentences, Strip(current_sentence))
         ELSE sentences
    ELSE LET cur == Append(current_sentence, Head(text))
         IN  IF Head(text) \in sentence_endings
             THEN SplitLoop(Tail(text), <<>>,
                            IF Strip(cur) # <<>>
                            THEN Append(sentences, Strip(cur))
                            ELSE sentences)
             ELSE SplitLoop(Tail(text), cur, sentences)

_split_into_sentences(text) ==
    IF text = <<>> THEN <<>> ELSE SplitLoop(text, <<>>, <<>>)

\* -------------------------------------------------------------- messages
ReadyMessage == [type |-> "ready"]
StateMessage(s, p) == [type |-> "state_update", state |-> s, previous_state |-> p]
TranscriptMessage(t, f) == [type |-> "transcript", text |-> t, is_final |-> f]
RAGResponseMessage(t) == [type |-> "rag_response", text |-> t]
AudioChunkMessage(c) == [type |-> "audio_chunk_tts", audio_data |-> c]
CompleteMessage == [type |-> "complete"]
ErrorMessage(c) == [type |-> "error", error_code |-> c]

VARIABLES
    \* gateway task (websocket_conversation)
    gw_pc, message_count, ws_open, sent, last_op, last_result,
    \* OrchestratorService / SessionManager
    active_sessions, reg_present, reg_state, conversation_history,
    \* ConversationSession
    current_state, is_active, audio_buffer,
    final_transcript, final_segments, latest_interim,
    \* ASR client, its manager entry and the listening task
    asr_in, asr_ws, asr_connected, asr_processing, asr_task,
    received, handlers, asr_connects, asr_forwarded,
    \* turn-processing task (_process_conversation)
    pipe_pc, pipe_cancel, tasks_started, sentences, collected, chunk_k,
    rag_queries, rag_failed, rag_answer, yielded,
    \* TTS client, its manager entry and the backend side of its connection
    tts_in, tts_ws, tts_connected, tts_backend_open, tts_requests,
    \* settings.enable_sentence_streaming
    enable_sentence_streaming,
    \* OrchestratorService.active_sessions under concurrent connection attempts
    cap_active, cap_pending, probe_pc, probe_sent,
    \* SessionManager.sessions over several sessions and the sweep
    reg_sessions, idle_for, reg_states, reg_history, turn_count,
    conv_sessions, used_ids, swept, late_events, ticks, reg_last,
    \* StreamingTTSService.synthesize_streaming for one request
    syn_pc, syn_n, syn_i, syn_attempt, syn_log, syn_waits, syn_out,
    successful_chunks, failed_chunks,
    \* StreamingSession of the transcription backend and its worker thread
    audio_queue, stop_event, added, accepted, late, gen_pc, gen_yielded,
    stop_pc, thread_alive,
    \* a call of the sentence splitter and the calls on what it returned
    split_pc, split_text, split_sentences, split_again

capVars == <<cap_active, cap_pending, probe_pc, probe_sent>>

\* The state the single-session model leaves alone.
managerVars == <<reg_sessions, idle_for, reg_states, reg_history, turn_count,
                 conv_sessions, used_ids, swept, late_events, ticks, reg_last>>

\* One request of the synthesis backend.
synthVars == <<syn_pc, syn_n, syn_i, syn_attempt, syn_log, syn_waits,
               syn_out, successful_chunks, failed_chunks>>

\* One streaming session of the transcription backend.
streamVars == <<audio_queue, stop_event, added, accepted, late, gen_pc,
                gen_yielded, stop_pc, thread_alive>>

\* The backends followed on their own.
\* The sentence splitter applied to one text.
splitVars == <<split_pc, split_text, split_sentences, split_again>>

extVars == <<synthVars, streamVars, splitVars>>

auxVars == <<capVars, managerVars, extVars>>

gwVars == <<gw_pc, message_count, ws_open, last_op, last_result>>
regVars == <<active_sessions, reg_present, conversation_history>>
trVars == <<final_transcript, final_segments, latest_interim>>
asrVars == <<asr_in, asr_ws, asr_connected, asr_processing, asr_task>>
asrLog == <<received, handlers, asr_connects, asr_forwarded>>
pipeLocals == <<sentences, collected, chunk_k, rag_queries, rag_failed,
               rag_answer, yielded>>
ttsVars == <<tts_in, tts_ws, tts_connected, tts_backend_open, tts_requests>>

sessionVars == <<gw_pc, message_count, ws_open, sent, last_op, last_result,
          active_sessions, reg_present, reg_state, conversation_history,
          current_state, is_active, audio_buffer,
          final_transcript, final_segments, latest_interim,
          asr_in, asr_ws, asr_connected, asr_processing, asr_task,
          received, handlers, asr_connects, asr_forwarded,
          pipe_pc, pipe_cancel, tasks_started, sentences, collected, chunk_k,
          rag_queries, rag_failed, rag_answer, yielded,
          tts_in, tts_ws, tts_connected, tts_backend_open, tts_requests,
          enable_sentence_streaming>>

vars == <<sessionVars, auxVars>>

SessionInit ==
    /\ gw_pc = "accept"
    /\ message_count = 0
    /\ ws_open = TRUE
    /\ sent = <<>>
    /\ last_op = "none"
    /\ last_result = TRUE
    /\ active_sessions = FALSE
    /\ reg_present = FALSE
    /\ reg_state = "idle"
    /\ conversation_history = <<>>
    /\ current_state = "idle"
    /\ is_active = FALSE
    /\ audio_buffer = <<>>
    /\ final_transcript = <<>>
    /\ final_segments = <<>>
    /\ latest_interim = <<>>
    /\ asr_in = FALSE
    /\ asr_ws = FALSE
    /\ asr_connected = FALSE
    /\ asr_processing = FALSE
    /\ asr_task = "none"
    /\ received = <<>>
    /\ handlers = <<>>
    /\ asr_connects = 0
    /\ asr_forwarded = 0
    /\ pipe_pc = "none"
    /\ pipe_cancel = FALSE
    /\ tasks_started = 0
    /\ sentences = <<>>
    /\ collected = <<>>
    /\ chunk_k = 0
    /\ rag_queries = <<>>
    /\ rag_failed = FALSE
    /\ rag_answer = <<>>
    /\ yielded = <<>>
    /\ tts_in = FALSE
    /\ tts_ws = FALSE
    /\ tts_connected = FALSE
    /\ tts_backend_open = FALSE
    /\ tts_requests = 0
    /\ enable_sentence_streaming \in BOOLEAN

\* OrchestratorService.__init__: no active session, no connection attempt.
CapacityInit ==
    /\ cap_active = 0
    /\ cap_pending = 0
    /\ probe_pc = "accept"
    /\ probe_sent = <<>>

SessionIds == 1..MaxSessions

\* SessionManager.__init__: an empty registry.
RegistryInit ==
    /\ reg_sessions = {}
    /\ idle_for = [sid \in SessionIds |-> 0]
    /\ reg_states = [sid \in SessionIds |-> "idle"]
    /\ reg_history = [sid \in SessionIds |-> <<>>]
    /\ turn_count = [sid \in SessionIds |-> 0]
    /\ conv_sessions = {}
    /\ used_ids = {}
    /\ swept = {}
    /\ late_events = {}
    /\ ticks = 0
    /\ reg_last = [op |-> "none", sid |-> 0, found |-> FALSE]

\* StreamingTTSService before a request.
SynthInit ==
    /\ syn_pc = "start"
    /\ syn_n = 0
    /\ syn_i = 0
    /\ syn_attempt = 0
    /\ syn_log = <<>>
    /\ syn_waits = <<>>
    /\ syn_out = <<>>
    /\ successful_chunks = 0
    /\ failed_chunks = 0

\* StreamingSession after start_recognition: the thread runs, the audio
\* generator has not been pulled yet.
StreamInit ==
    /\ audio_queue = <<>>
    /\ stop_event = FALSE
    /\ added = 0
    /\ accepted = <<>>
    /\ late = {}
    /\ gen_pc = "check"
    /\ gen_yielded = <<>>
    /\ stop_pc = "idle"
    /\ thread_alive = TRUE

\* No text has been split yet.
SplitInit ==
    /\ split_pc = "idle"
    /\ split_text = <<>>
    /\ split_sentences = <<>>
    /\ split_again = <<>>

ExtInit == SynthInit /\ StreamInit /\ SplitInit

Init == SessionInit /\ CapacityInit /\ RegistryInit /\ ExtInit

\* ConversationSession._send_message: the message reaches the client only
\* while the session is active and the client connection accepts writes
\* (a failed send_text is caught and logged).
_send_message(log, msgs) == IF is_active /\ ws_open THEN log \o msgs ELSE log

\* SessionManager.update_session_state: a no-op for an unknown session.
update_session_state(s) == IF reg_present THEN s ELSE reg_state

\* Inputs taken so far against the bound.
InputsLeft == message_count + Len(received) + Len(yielded) < MaxInputs

\* A task of the loop runs until it suspends: while the gateway task is
\* between the return of a session method and the start of close_session
\* no other task is scheduled.
Yielded == gw_pc # "break"

\* ------------------------------------------------ gateway: session set-up
\* OrchestratorService.create_session up to the first write on the client
\* connection: SessionManager.create_session, ConversationSession(...) and
\* start_conversation, whose _update_state sends state_update(LISTENING).
GwCreateSession ==
    /\ gw_pc = "accept"
    /\ reg_present' = TRUE
    /\ reg_state' = "listening"
    /\ is_active' = TRUE
    /\ current_state' = "listening"
    /\ sent' = IF ws_open
               THEN Append(sent, StateMessage("listening", current_state))
               ELSE sent
    /\ gw_pc' = "created"
    /\ UNCHANGED <<message_count, ws_open, last_op, last_result,
                   active_sessions, conversation_history, audio_buffer,
                   trVars, asrVars, asrLog, pipe_pc, pipe_cancel,
                   tasks_started, pipeLocals, ttsVars,
                   enable_sentence_streaming, auxVars>>

\* create_session stores the session; the gateway then sends `ready` and its
\* own state_update(LISTENING) and enters the message loop.
GwReady ==
    /\ gw_pc = "created"
    /\ active_sessions' = TRUE
    /\ sent' = sent \o <<ReadyMessage, StateMessage("listening", "idle")>>
    /\ gw_pc' = "loop"
    /\ UNCHANGED <<message_count, ws_open, last_op, last_result,
                   reg_present, reg_state, conversation_history,
                   current_state, is_active, audio_buffer,
                   trVars, asrVars, asrLog, pipe_pc, pipe_cancel,
                   tasks_started, pipeLocals, ttsVars,
                   enable_sentence_streaming, auxVars>>

\* ------------------------------------------------- gateway: message loop
\* The forwarding of a chunk with a connect for every chunk, connected or not.
forward_chunk_reconnecting(connect_ok, send_ok) ==
    /\ asr_in' = TRUE
    /\ IF ~connect_ok
       THEN /\ asr_ws' = FALSE
            /\ asr_connected' = FALSE
            /\ asr_processing' = FALSE
            /\ UNCHANGED <<asr_task, asr_connects, asr_forwarded>>
            /\ last_result' = FALSE
       ELSE /\ asr_ws' = TRUE
            /\ asr_connected' = TRUE
            /\ asr_connects' = asr_connects + 1
            /\ IF asr_task \in {"none", "done"}
               THEN asr_task' = "running" /\ asr_processing' = TRUE
               ELSE UNCHANGED <<asr_task, asr_processing>>
            /\ asr_forwarded' = IF send_ok THEN asr_forwarded + 1
                                ELSE asr_forwarded
            /\ last_result' = send_ok

\* process_audio_chunk in LISTENING after the buffer append: the ASR client
\* of the session, its lazy connect with the start of the listening task,
\* and the forwarding of the chunk.  connect_ok, send_ok: whether
\* ASRClient.connect and ASRClient.send_audio_chunk succeed.
forward_chunk(connect_ok, send_ok) ==
    /\ asr_in' = TRUE
    /\ IF ~asr_connected /\ ~connect_ok
       THEN /\ asr_ws' = FALSE
            /\ asr_connected' = FALSE
            /\ asr_processing' = FALSE
            /\ UNCHANGED <<asr_task, asr_connects, asr_forwarded>>
            /\ last_result' = FALSE
       ELSE /\ asr_ws' = TRUE
            /\ asr_connected' = TRUE
            /\ asr_connects' = IF asr_connected THEN asr_connects
                               ELSE asr_connects + 1
            /\ IF ~asr_connected /\ asr_task \in {"none", "done"}
               THEN asr_task' = "running" /\ asr_processing' = TRUE
               ELSE UNCHANGED <<asr_task, asr_processing>>
            /\ asr_forwarded' = IF send_ok THEN asr_forwarded + 1
                                ELSE asr_forwarded
            /\ last_result' = send_ok

\* process_audio_chunk with the buffer append ahead of the state check.
process_audio_chunk_buffer_first(connect_ok, send_ok) ==
    /\ audio_buffer' = Append(audio_buffer, "frame")
    /\ IF current_state # "listening"
       THEN /\ last_result' = FALSE
            /\ UNCHANGED <<asrVars, asr_connects, asr_forwarded>>
       ELSE forward_chunk(connect_ok, send_ok)

\* ConversationSession.process_audio_chunk.
process_audio_chunk(connect_ok, send_ok) ==
    IF current_state # "listening"
    THEN /\ last_result' = FALSE
         /\ UNCHANGED <<audio_buffer, asrVars, asr_connects, asr_forwarded>>
    ELSE /\ audio_buffer' = Append(audio_buffer, "frame")
         /\ forward_chunk(connect_ok, send_ok)

\* A binary frame: the loop is left when process_audio_chunk fails.
GwAudioFrame(connect_ok, send_ok) ==
    /\ gw_pc = "loop"
    /\ InputsLeft
    /\ message_count' = message_count + 1
    /\ last_op' = "process_audio_chunk"
    /\ process_audio_chunk(connect_ok, send_ok)
    /\ gw_pc' = IF last_result' THEN "loop" ELSE "break"
    /\ UNCHANGED <<ws_open, sent, regVars, reg_state, current_state,
                   is_active, trVars, received, handlers,
                   pipe_pc, pipe_cancel, tasks_started, pipeLocals, ttsVars,
                   enable_sentence_streaming, auxVars>>

\* end_audio_input without the state check.
end_audio_input_unchecked ==
    /\ reg_state' = update_session_state("processing")
    /\ current_state' = "processing"
    /\ sent' = _send_message(sent,
                  <<StateMessage("processing", current_state)>>)
    /\ pipe_pc' = "sleep"
    /\ tasks_started' = tasks_started + 1
    /\ last_result' = TRUE

\* end_audio_input with the registry update ahead of the state check.
end_audio_input_early_update ==
    IF current_state # "listening"
    THEN /\ reg_state' = update_session_state("processing")
         /\ last_result' = FALSE
         /\ UNCHANGED <<sent, current_state, pipe_pc, tasks_started>>
    ELSE end_audio_input_unchecked

\* ConversationSession.end_audio_input.
end_audio_input ==
    IF current_state # "listening"
    THEN /\ last_result' = FALSE
         /\ UNCHANGED <<sent, reg_state, current_state, pipe_pc,
                        tasks_started>>
    ELSE /\ reg_state' = update_session_state("processing")
         /\ current_state' = "processing"
         /\ sent' = _send_message(sent,
                       <<StateMessage("processing", current_state)>>)
         /\ pipe_pc' = "sleep"
         /\ tasks_started' = tasks_started + 1
         /\ last_result' = TRUE

\* {"type": "audio_end"}: the loop is left when end_audio_input fails.
GwAudioEnd ==
    /\ gw_pc = "loop"
    /\ InputsLeft
    /\ message_count' = message_count + 1
    /\ last_op' = "end_audio_input"
    /\ end_audio_input
    /\ gw_pc' = IF last_result' THEN "loop" ELSE "break"
    /\ UNCHANGED <<ws_open, regVars, is_active, audio_buffer, trVars,
                   asrVars, asrLog, pipe_cancel, pipeLocals, ttsVars,
                   enable_sentence_streaming, auxVars>>

\* A text frame that is not JSON or carries another type, handled as a
\* failure that leaves the receive loop.
GwIgnoredTextBreaks ==
    /\ gw_pc = "loop"
    /\ InputsLeft
    /\ message_count' = message_count + 1
    /\ last_op' = "ignored_text"
    /\ gw_pc' = "break"
    /\ UNCHANGED <<ws_open, sent, last_result, regVars, reg_state,
                   current_state, is_active, audio_buffer, trVars,
                   asrVars, asrLog, pipe_pc, pipe_cancel, tasks_started,
                   pipeLocals, ttsVars, enable_sentence_streaming, auxVars>>

\* A text frame that is not JSON or carries another type: logged only.
GwIgnoredText ==
    /\ gw_pc = "loop"
    /\ InputsLeft
    /\ message_count' = message_count + 1
    /\ last_op' = "ignored_text"
    /\ UNCHANGED <<gw_pc, ws_open, sent, last_result, regVars, reg_state,
                   current_state, is_active, audio_buffer, trVars,
                   asrVars, asrLog, pipe_pc, pipe_cancel, tasks_started,
                   pipeLocals, ttsVars, enable_sentence_streaming, auxVars>>

\* websocket.disconnect (or WebSocketDisconnect raised by receive).
GwDisconnect ==
    /\ gw_pc = "loop"
    /\ message_count' = message_count + 1
    /\ last_op' = "disconnect"
    /\ ws_open' = FALSE
    /\ gw_pc' = "break"
    /\ UNCHANGED <<sent, last_result, regVars, reg_state,
                   current_state, is_active, audio_buffer, trVars,
                   asrVars, asrLog, pipe_pc, pipe_cancel, tasks_started,
                   pipeLocals, ttsVars, enable_sentence_streaming, auxVars>>

\* ------------------------------------------- gateway: close_session steps
\* TTSClientManager.cleanup_client as called from ConversationSession.close:
\* the TTS part of _cleanup_session, then is_active = False and the close of
\* the client connection.  A connected client suspends in websocket.close().
GwCleanupTtsStart ==
    IF tts_in /\ tts_ws
    THEN /\ gw_pc' = "cl_tts"
         /\ UNCHANGED <<tts_in, is_active, ws_open>>
    ELSE /\ tts_in' = FALSE
         /\ is_active' = FALSE
         /\ ws_open' = FALSE
         /\ gw_pc' = "ws_close"

\* finally-block of the gateway (the loop was left): close_session,
\* ConversationSession.close and _cleanup_session up to its first suspension.
GwClose ==
    /\ gw_pc = "break"
    /\ IF ~active_sessions
       THEN /\ gw_pc' = "closed"
            /\ UNCHANGED <<ws_open, is_active, asrVars, pipe_cancel, tts_in>>
       ELSE /\ asr_task' = IF asr_task = "running" THEN "cancelling"
                           ELSE asr_task
            /\ pipe_cancel' = (pipe_cancel \/ pipe_pc \notin {"none", "done"})
            /\ UNCHANGED <<asr_ws, asr_connected, asr_processing>>
            /\ IF asr_in /\ asr_ws
               THEN /\ gw_pc' = "cl_asr"
                    /\ UNCHANGED <<asr_in, tts_in, is_active, ws_open>>
               ELSE /\ asr_in' = FALSE
                    /\ GwCleanupTtsStart
    /\ UNCHANGED <<message_count, sent, last_op, last_result, regVars,
                   reg_state, current_state, audio_buffer, trVars, asrLog,
                   pipe_pc, tasks_started, pipeLocals, tts_ws, tts_connected,
                   tts_backend_open, tts_requests, enable_sentence_streaming, auxVars>>

\* The cleanup of the Transcription client without the removal of its
\* manager entry.
GwCleanupAsrKeepsEntry ==
    /\ gw_pc = "cl_asr"
    /\ asr_ws' = FALSE
    /\ asr_connected' = FALSE
    /\ asr_processing' = FALSE
    /\ UNCHANGED asr_in
    /\ GwCleanupTtsStart
    /\ UNCHANGED <<message_count, sent, last_op, last_result, regVars,
                   reg_state, current_state, audio_buffer, trVars, asr_task,
                   asrLog, pipe_pc, pipe_cancel, tasks_started, pipeLocals,
                   tts_ws, tts_connected, tts_backend_open, tts_requests,
                   enable_sentence_streaming, auxVars>>

\* ASRClient.disconnect resumes after websocket.close(); cleanup_client then
\* deletes the manager entry.  A missing entry raises KeyError, which
\* _cleanup_session catches, skipping the rest of the cleanup.
GwCleanupAsr ==
    /\ gw_pc = "cl_asr"
    /\ asr_ws' = FALSE
    /\ asr_connected' = FALSE
    /\ asr_processing' = FALSE
    /\ asr_in' = FALSE
    /\ IF asr_in
       THEN GwCleanupTtsStart
       ELSE /\ gw_pc' = "ws_close"
            /\ ws_open' = FALSE
            /\ UNCHANGED <<tts_in, is_active>>
    /\ UNCHANGED <<message_count, sent, last_op, last_result, regVars,
                   reg_state, current_state, audio_buffer, trVars, asr_task,
                   asrLog, pipe_pc, pipe_cancel, tasks_started, pipeLocals,
                   tts_ws, tts_connected, tts_backend_open, tts_requests,
                   enable_sentence_streaming, auxVars>>

\* TTSClient.disconnect resumes after websocket.close().
GwCleanupTts ==
    /\ gw_pc = "cl_tts"
    /\ tts_ws' = FALSE
    /\ tts_connected' = FALSE
    /\ tts_backend_open' = FALSE
    /\ tts_in' = FALSE
    /\ is_active' = IF tts_in THEN FALSE ELSE is_active
    /\ ws_open' = FALSE
    /\ gw_pc' = "ws_close"
    /\ UNCHANGED <<message_count, sent, last_op, last_result, regVars,
                   reg_state, current_state, audio_buffer, trVars, asrVars,
                   asrLog, pipe_pc, pipe_cancel, tasks_started, pipeLocals,
                   tts_requests, enable_sentence_streaming, auxVars>>

\* The end of close_session without SessionManager.delete_session.
GwFinishKeepsRegistry ==
    /\ gw_pc = "ws_close"
    /\ active_sessions' = FALSE
    /\ gw_pc' = "closed"
    /\ UNCHANGED <<message_count, ws_open, sent, last_op, last_result,
                   reg_present, reg_state, conversation_history,
                   current_state, is_active, audio_buffer, trVars, asrVars,
                   asrLog, pipe_pc, pipe_cancel, tasks_started, pipeLocals,
                   ttsVars, enable_sentence_streaming, auxVars>>

\* After the client connection is closed: the session leaves active_sessions
\* and SessionManager.delete_session removes it from the registry.
GwFinish ==
    /\ gw_pc = "ws_close"
    /\ active_sessions' = FALSE
    /\ reg_present' = FALSE
    /\ gw_pc' = "closed"
    /\ UNCHANGED <<message_count, ws_open, sent, last_op, last_result,
                   reg_state, conversation_history, current_state, is_active,
                   audio_buffer, trVars, asrVars, asrLog, pipe_pc,
                   pipe_cancel, tasks_started, pipeLocals, ttsVars,
                   enable_sentence_streaming, auxVars>>

\* ------------------------------------------------- ASR listening task
\* ASRClient.listen_for_transcripts receives one transcript event and calls
\* transcript_callback, which creates a _handle_transcript task.
AsrDeliver(ev) ==
    /\ Yielded
    /\ asr_task = "running"
    /\ asr_connected /\ asr_processing
    /\ InputsLeft
    /\ received' = Append(received, ev)
    /\ handlers' = Append(handlers, ev)
    /\ UNCHANGED <<gwVars, sent, regVars, reg_state, current_state, is_active,
                   audio_buffer, trVars, asrVars, asr_connects, asr_forwarded,
                   pipe_pc, pipe_cancel, tasks_started, pipeLocals, ttsVars,
                   enable_sentence_streaming, auxVars>>

\* The receive loop ends (ConnectionClosed, another receive error, or the
\* loop condition is false after a disconnect); finally: is_processing = False.
AsrLoopEnds ==
    /\ Yielded
    /\ asr_task = "running"
    /\ asr_task' = "done"
    /\ asr_processing' = FALSE
    /\ UNCHANGED <<gwVars, sent, regVars, reg_state, current_state, is_active,
                   audio_buffer, trVars, asr_in, asr_ws, asr_connected,
                   asrLog, pipe_pc, pipe_cancel, tasks_started, pipeLocals,
                   ttsVars, enable_sentence_streaming, auxVars>>

\* The cancelled listening task runs its finally-block and ends.
AsrCancelled ==
    /\ Yielded
    /\ asr_task = "cancelling"
    /\ asr_task' = "done"
    /\ asr_processing' = FALSE
    /\ UNCHANGED <<gwVars, sent, regVars, reg_state, current_state, is_active,
                   audio_buffer, trVars, asr_in, asr_ws, asr_connected,
                   asrLog, pipe_pc, pipe_cancel, tasks_started, pipeLocals,
                   ttsVars, enable_sentence_streaming, auxVars>>

\* --------------------------------------------- _handle_transcript tasks
\* The event loop starts tasks in the order asyncio.create_task made them.
NextHandlerAny(hs) == 1..Len(hs)
NextHandler(hs) == {1}

RemoveAt(q, i) == SubSeq(q, 1, i - 1) \o SubSeq(q, i + 1, Len(q))

_handle_transcript(i) ==
    /\ Yielded
    /\ handlers # <<>>
    /\ i \in NextHandler(handlers)
    /\ LET ev == handlers[i]
       IN  /\ sent' = _send_message(sent,
                         <<TranscriptMessage(ev.text, ev.is_final)>>)
           /\ IF ev.is_final /\ ev.text # <<>>
              THEN /\ final_segments' = Append(final_segments, Strip(ev.text))
                   /\ final_transcript' =
                          JoinSpace(NonEmpty(Append(final_segments,
                                                    Strip(ev.text))))
                   /\ latest_interim' = <<>>
              ELSE /\ latest_interim' = Strip(ev.text)
                   /\ UNCHANGED <<final_segments, final_transcript>>
    /\ handlers' = RemoveAt(handlers, i)
    /\ UNCHANGED <<gwVars, regVars, reg_state, current_state, is_active,
                   audio_buffer, asrVars, received, asr_connects,
                   asr_forwarded, pipe_pc, pipe_cancel, tasks_started,
                   pipeLocals, ttsVars, enable_sentence_streaming, auxVars>>

\* ------------------------------------------------- turn-processing task
\* Variables no step of the turn pipeline writes.
pipeUntouched == <<gwVars, active_sessions, reg_present, audio_buffer,
                   final_segments, latest_interim, asrLog, tasks_started,
                   enable_sentence_streaming, auxVars>>

\* ConversationSession._cleanup_session as run by the finally-block of
\* _process_conversation, up to its first suspension.  The task cancels the
\* listening task and, not being done, itself; the cancellation is delivered
\* at the next await that suspends, which is websocket.close() inside the
\* disconnect of a client that holds a connection.
PipeCleanup(tts_entry) ==
    /\ asr_task' = IF asr_task = "running" THEN "cancelling" ELSE asr_task
    /\ pipe_cancel' = FALSE
    /\ IF asr_in /\ asr_ws
       THEN /\ pipe_pc' = "cl_asr"
            /\ tts_in' = tts_entry
            /\ UNCHANGED <<asr_in, is_active>>
       ELSE /\ asr_in' = FALSE
            /\ IF tts_entry /\ tts_ws
               THEN /\ pipe_pc' = "cl_tts"
                    /\ tts_in' = tts_entry
                    /\ UNCHANGED is_active
               ELSE /\ tts_in' = FALSE
                    /\ is_active' = FALSE
                    /\ pipe_pc' = "done"
    /\ UNCHANGED <<asr_ws, asr_connected, asr_processing,
                   tts_ws, tts_connected, tts_backend_open>>

\* The pipeline goes on to its next suspension point.
PipeContinue(pc) ==
    /\ pipe_pc' = pc
    /\ UNCHANGED <<asrVars, is_active, pipe_cancel>>

\* ConversationSession._send_error, called in state prev with log the
\* messages written so far in this step.
_send_error(log, error_code, prev) ==
    /\ sent' = _send_message(log, <<ErrorMessage(error_code),
                                    StateMessage("error", prev)>>)
    /\ reg_state' = update_session_state("error")
    /\ current_state' = "error"

\* The trim keeping the first max_session_history turns.
trim_history_oldest(h) ==
    IF Len(h) > max_session_history
    THEN SubSeq(h, 1, max_session_history)
    ELSE h

\* add_conversation_turn: conversation_history[-max_session_history:] when
\* the history exceeds max_session_history.
trim_history(h) ==
    IF Len(h) > max_session_history
    THEN SubSeq(h, Len(h) - max_session_history + 1, Len(h))
    ELSE h

\* SessionManager.add_conversation_turn
add_conversation_turn(history, user_query, assistant_response) ==
    LET h == Append(history, [user_query |-> user_query,
                              assistant_response |-> assistant_response])
    IN  IF ~reg_present THEN history ELSE trim_history(h)

\* The end of _process_conversation with state_update(IDLE) ahead of
\* `complete`.
PipeFinishIdleFirst(log, prev, aggregated_answer, tts_entry) ==
    /\ conversation_history' =
           IF enable_conversation_history /\ aggregated_answer # <<>>
           THEN add_conversation_turn(conversation_history, final_transcript,
                                      aggregated_answer)
           ELSE conversation_history
    /\ sent' = _send_message(log, <<StateMessage("idle", prev),
                                    CompleteMessage>>)
    /\ reg_state' = update_session_state("idle")
    /\ current_state' = "idle"
    /\ PipeCleanup(tts_entry)

\* The end of _process_conversation: history, `complete`, IDLE, cleanup.
PipeFinish(log, prev, aggregated_answer, tts_entry) ==
    /\ conversation_history' =
           IF enable_conversation_history /\ aggregated_answer # <<>>
           THEN add_conversation_turn(conversation_history, final_transcript,
                                      aggregated_answer)
           ELSE conversation_history
    /\ sent' = _send_message(log, <<CompleteMessage,
                                    StateMessage("idle", prev)>>)
    /\ reg_state' = update_session_state("idle")
    /\ current_state' = "idle"
    /\ PipeCleanup(tts_entry)

\* TTSClient.stream_synthesis up to its first suspension: connect when not
\* connected, else send the request; a send on a connection the backend has
\* closed raises, and the generator ends without a chunk.
StartSynthesis ==
    /\ chunk_k' = 0
    /\ UNCHANGED <<tts_ws, tts_connected, tts_backend_open>>
    /\ IF ~tts_connected
       THEN PipeContinue("tts_connect") /\ UNCHANGED tts_requests
       ELSE IF tts_backend_open
            THEN PipeContinue("tts_recv") /\ tts_requests' = tts_requests + 1
            ELSE PipeContinue("pace") /\ UNCHANGED tts_requests

\* _process_sentence with the state update ahead of the rag_response.
StartSentenceStateFirst(log, prev, sentence) ==
    /\ sent' = _send_message(log, <<StateMessage("speaking", prev),
                                    RAGResponseMessage(sentence)>>)
    /\ reg_state' = update_session_state("speaking")
    /\ current_state' = "speaking"
    /\ tts_in' = TRUE
    /\ StartSynthesis

\* _process_sentence for the next sentence of the streamed answer.
StartSentence(log, prev, sentence) ==
    /\ sent' = _send_message(log, <<RAGResponseMessage(sentence),
                                    StateMessage("speaking", prev)>>)
    /\ reg_state' = update_session_state("speaking")
    /\ current_state' = "speaking"
    /\ tts_in' = TRUE
    /\ StartSynthesis

aggregated(cs) == Strip(JoinSpace(cs))

\* The transcript the turn works with: the finalized one, else the latest
\* interim.
\* (without the fallback to the latest interim)
TranscriptNoFallback == final_transcript

TranscriptFallback ==
    IF final_transcript = <<>> /\ latest_interim # <<>>
    THEN latest_interim
    ELSE final_transcript

\* After asyncio.sleep(1.0): transcript fallback, no_transcript, context,
\* RAG client and the start of the retrieval query.  fault: get_client raises.
PipeGrace(fault) ==
    /\ Yielded
    /\ pipe_pc = "sleep"
    /\ ~pipe_cancel
    /\ LET ft == TranscriptFallback
       IN  /\ final_transcript' = ft
           /\ IF ft = <<>>
              THEN /\ _send_error(sent, "no_transcript", current_state)
                   /\ PipeCleanup(tts_in)
                   /\ UNCHANGED <<rag_queries, tts_requests>>
              ELSE IF fault
              THEN /\ _send_error(sent, "processing_failed", current_state)
                   /\ PipeCleanup(tts_in)
                   /\ UNCHANGED <<rag_queries, tts_requests>>
              ELSE /\ rag_queries' = Append(rag_queries, ft)
                   /\ PipeContinue("rag_wait")
                   /\ UNCHANGED <<sent, reg_state, current_state, ttsVars>>
    /\ UNCHANGED <<pipeUntouched, conversation_history, sentences, collected,
                   chunk_k, rag_failed, rag_answer, yielded>>

\* The retrieval query fails (non-200, timeout, transport error).
PipeRagFails ==
    /\ Yielded
    /\ pipe_pc = "rag_wait"
    /\ ~pipe_cancel
    /\ rag_failed' = TRUE
    /\ IF enable_sentence_streaming
       THEN PipeFinish(sent, current_state, aggregated(<<>>), tts_in)
       ELSE /\ _send_error(sent, "rag_failed", current_state)
            /\ PipeCleanup(tts_in)
            /\ UNCHANGED conversation_history
    /\ UNCHANGED <<pipeUntouched, final_transcript, sentences, collected,
                   chunk_k, rag_queries, rag_answer, yielded, tts_requests>>

\* The retrieval query returns answer.
PipeRagReturns(answer) ==
    /\ Yielded
    /\ pipe_pc = "rag_wait"
    /\ ~pipe_cancel
    /\ rag_answer' = answer
    /\ LET ss == _split_into_sentences(answer)
       IN  /\ sentences' = ss
           /\ IF enable_sentence_streaming
              THEN IF ss = <<>>
                   THEN /\ PipeFinish(sent, current_state, aggregated(<<>>), tts_in)
                        /\ UNCHANGED <<collected, chunk_k, tts_requests>>
                   ELSE /\ collected' = <<Head(ss)>>
                        /\ StartSentence(sent, current_state, Head(ss))
                        /\ UNCHANGED conversation_history
              ELSE LET log == _send_message(sent,
                                 <<RAGResponseMessage(answer),
                                   StateMessage("speaking", current_state)>>)
                   IN  IF ss = <<>>
                       THEN /\ PipeFinish(log, "speaking", answer, TRUE)
                            /\ UNCHANGED <<collected, chunk_k, tts_requests>>
                       ELSE /\ sent' = log
                            /\ reg_state' = update_session_state("speaking")
                            /\ current_state' = "speaking"
                            /\ tts_in' = TRUE
                            /\ StartSynthesis
                            /\ UNCHANGED <<collected, conversation_history>>
    /\ UNCHANGED <<pipeUntouched, final_transcript, rag_queries, rag_failed,
                   yielded>>

\* websockets.connect for the TTS client returns or fails; on success the
\* synthesis request is sent.
PipeTtsConnect(ok) ==
    /\ Yielded
    /\ pipe_pc = "tts_connect"
    /\ ~pipe_cancel
    /\ IF ok
       THEN /\ tts_ws' = TRUE
            /\ tts_connected' = TRUE
            /\ tts_backend_open' = TRUE
            /\ tts_requests' = tts_requests + 1
            /\ PipeContinue("tts_recv")
       ELSE /\ PipeContinue("pace")
            /\ UNCHANGED <<tts_ws, tts_connected, tts_backend_open,
                           tts_requests>>
    /\ UNCHANGED <<pipeUntouched, sent, reg_state, conversation_history,
                   current_state, final_transcript, pipeLocals, tts_in>>

\* stream_synthesis receives a binary message and yields it; the session
\* relays it as audio_chunk_tts.
PipeTtsChunk ==
    /\ Yielded
    /\ pipe_pc = "tts_recv"
    /\ ~pipe_cancel
    /\ InputsLeft
    /\ LET chunk == [sentence |-> Head(sentences), k |-> chunk_k + 1]
       IN  /\ yielded' = Append(yielded, chunk)
           /\ sent' = _send_message(sent, <<AudioChunkMessage(chunk)>>)
    /\ chunk_k' = chunk_k + 1
    /\ PipeContinue("tts_recv")
    /\ UNCHANGED <<pipeUntouched, reg_state, conversation_history,
                   current_state, final_transcript, sentences, collected,
                   rag_queries, rag_failed, rag_answer, ttsVars>>

\* stream_synthesis receives `complete` or `error`, times out or finds the
\* connection closed; websocket_tts_stream closes its side after one request.
PipeTtsEnd ==
    /\ Yielded
    /\ pipe_pc = "tts_recv"
    /\ ~pipe_cancel
    /\ tts_backend_open' = FALSE
    /\ PipeContinue("pace")
    /\ UNCHANGED <<pipeUntouched, sent, reg_state, conversation_history,
                   current_state, final_transcript, pipeLocals,
                   tts_in, tts_ws, tts_connected, tts_requests>>

\* After the pacing sleep that follows a sentence: the next sentence, or the
\* end of the turn.
PipePace ==
    /\ Yielded
    /\ pipe_pc = "pace"
    /\ ~pipe_cancel
    /\ LET rest == Tail(sentences)
       IN  /\ sentences' = rest
           /\ IF rest = <<>>
              THEN /\ PipeFinish(sent, current_state,
                                 IF enable_sentence_streaming
                                 THEN aggregated(collected)
                                 ELSE rag_answer, tts_in)
                   /\ UNCHANGED <<collected, chunk_k, tts_requests>>
              ELSE IF enable_sentence_streaming
              THEN /\ collected' = Append(collected, Head(rest))
                   /\ StartSentence(sent, current_state, Head(rest))
                   /\ UNCHANGED conversation_history
              ELSE /\ StartSynthesis
                   /\ UNCHANGED <<sent, reg_state, current_state, tts_in,
                                  collected, conversation_history>>
    /\ UNCHANGED <<pipeUntouched, final_transcript, rag_queries, rag_failed,
                   rag_answer, yielded>>

\* CancelledError is raised at the await the task is suspended in; no
\* `except Exception` catches it, and the finally-block runs the cleanup.
PipeCancelled ==
    /\ Yielded
    /\ pipe_cancel
    /\ pipe_pc \in {"sleep", "rag_wait", "tts_connect", "tts_recv", "pace"}
    /\ PipeCleanup(tts_in)
    /\ UNCHANGED <<pipeUntouched, sent, reg_state, conversation_history,
                   current_state, final_transcript, pipeLocals, tts_requests>>

\* The task cancelled itself in _cleanup_session: websocket.close() inside
\* disconnect raises CancelledError, the finally-block of disconnect resets
\* the client, and the rest of the cleanup is skipped.
PipeCleanupCancelled ==
    /\ Yielded
    /\ pipe_pc \in {"cl_asr", "cl_tts"}
    /\ pipe_pc' = "done"
    /\ pipe_cancel' = FALSE
    /\ IF pipe_pc = "cl_asr"
       THEN /\ asr_ws' = FALSE
            /\ asr_connected' = FALSE
            /\ asr_processing' = FALSE
            /\ UNCHANGED <<tts_ws, tts_connected, tts_backend_open>>
       ELSE /\ tts_ws' = FALSE
            /\ tts_connected' = FALSE
            /\ tts_backend_open' = FALSE
            /\ UNCHANGED <<asr_ws, asr_connected, asr_processing>>
    /\ UNCHANGED <<pipeUntouched, sent, reg_state, conversation_history,
                   current_state, is_active, final_transcript, asr_in,
                   asr_task, pipeLocals, tts_in, tts_requests>>

\* ------------------------------------------------------------------ spec
Next ==
    \/ GwCreateSession
    \/ GwReady
    \/ \E connect_ok \in BOOLEAN, send_ok \in BOOLEAN :
           GwAudioFrame(connect_ok, send_ok)
    \/ GwAudioEnd
    \/ GwIgnoredText
    \/ GwDisconnect
    \/ GwClose
    \/ GwCleanupAsr
    \/ GwCleanupTts
    \/ GwFinish
    \/ \E ev \in TranscriptEvents : AsrDeliver(ev)
    \/ AsrLoopEnds
    \/ AsrCancelled
    \/ \E i \in 1..MaxInputs : _handle_transcript(i)
    \/ \E fault \in BOOLEAN : PipeGrace(fault)
    \/ PipeRagFails
    \/ \E answer \in Answers : PipeRagReturns(answer)
    \/ \E ok \in BOOLEAN : PipeTtsConnect(ok)
    \/ PipeTtsChunk
    \/ PipeTtsEnd
    \/ PipePace
    \/ PipeCancelled
    \/ PipeCleanupCancelled

Spec == Init /\ [][Next]_vars

\* ---------------------------------------------------------- event queries
IsType(m, t) == m.type = t
IsReady(m) == m.type = "ready"
IsStateUpdate(m) == m.type = "state_update"
IsTranscript(m) == m.type = "transcript"
IsRag(m) == m.type = "rag_response"
IsAudio(m) == m.type = "audio_chunk_tts"
IsError(m) == m.type = "error"

HasError(log, code) ==
    \E i \in 1..Len(log) : IsError(log[i]) /\ log[i].error_code = code

\* The events of the turn pipeline that the ordering is about.
Phase(m) ==
    IF IsStateUpdate(m) /\ m.state = "processing" THEN 1
    ELSE IF IsRag(m) THEN 2
    ELSE IF IsStateUpdate(m) /\ m.state = "speaking" THEN 3
    ELSE IF IsAudio(m) THEN 4
    ELSE IF m.type = "complete" THEN 5
    ELSE IF IsStateUpdate(m) /\ m.state = "idle" THEN 6
    ELSE 0

IsTurnEvent(m) == Phase(m) # 0
TurnEvents == SelectSeq(sent, IsTurnEvent)

RelayedAudio ==
    LET as == SelectSeq(sent, IsAudio)
    IN  [i \in 1..Len(as) |-> as[i].audio_data]

RelayedSentences ==
    LET rs == SelectSeq(sent, IsRag)
    IN  [i \in 1..Len(rs) |-> rs[i].text]

RelayedTranscripts ==
    LET ts == SelectSeq(sent, IsTranscript)
    IN  [i \in 1..Len(ts) |-> [text |-> ts[i].text, is_final |-> ts[i].is_final]]

IsPrefix(p, q) == Len(p) <= Len(q) /\ p = SubSeq(q, 1, Len(p))

\* ------------------------------------------------------------------- C1
\* C1: no state_update is sent to the client before `ready`: every
\* state_update in the stream of sent events has a `ready` before it.
C1_ReadyFirst ==
    \A i \in 1..Len(sent) :
        IsStateUpdate(sent[i]) => \E j \in 1..(i - 1) : IsReady(sent[j])

\* ------------------------------------------------------------------- C2
\* C2 as stated: the turn's events come in the listed order, each listed
\* event before the later ones, only audio chunks repeating; audio chunks
\* are relayed as yielded.
C2_ListedOrder ==
    (final_transcript # <<>> /\ rag_answer # <<>> /\ Len(yielded) > 0) =>
    /\ \A i, j \in 1..Len(TurnEvents) :
           i < j => \/ Phase(TurnEvents[i]) < Phase(TurnEvents[j])
                    \/ Phase(TurnEvents[i]) = 4 /\ Phase(TurnEvents[j]) = 4
    /\ RelayedAudio = yielded

TurnStep(q, m) ==
    LET ph == Phase(m)
    IN  IF q = "start" /\ ph = 1 THEN "processing"
        ELSE IF q = "processing" /\ ph = 2 THEN "answer"
        ELSE IF q = "processing" /\ ph = 5 THEN "complete"
        ELSE IF q = "answer" /\ ph = 3 THEN "speaking"
        ELSE IF q = "speaking" /\ ph = 4 THEN "speaking"
        ELSE IF q = "speaking" /\ ph = 2 /\ enable_sentence_streaming
             THEN "answer"
        ELSE IF q = "speaking" /\ ph = 5 THEN "complete"
        ELSE IF q = "complete" /\ ph = 6 THEN "idle"
        ELSE "reject"

RECURSIVE TurnRun(_, _)
TurnRun(q, evs) ==
    IF evs = <<>> THEN q ELSE TurnRun(TurnStep(q, Head(evs)), Tail(evs))

\* C2 (amended): after state_update(PROCESSING) the turn's events are, for
\* each sentence in retrieval order, rag_response, state_update(SPEAKING)
\* and that sentence's audio chunks (one rag_response for the whole answer
\* in single-shot mode), then complete, state_update(IDLE); audio chunks are
\* relayed in the order the Synthesis client yielded them.
C2_PerSentenceOrder ==
    /\ TurnRun("start", TurnEvents) # "reject"
    /\ RelayedAudio = yielded
    /\ IF enable_sentence_streaming
       THEN IsPrefix(RelayedSentences, _split_into_sentences(rag_answer))
       ELSE IsPrefix(RelayedSentences, <<rag_answer>>)

C2_Witness ==
    /\ enable_sentence_streaming
    /\ Len(RelayedSentences) = 2
    /\ Len(RelayedAudio) >= 2
    /\ TurnRun("start", TurnEvents) = "idle"

\* ------------------------------------------------------------------- C3
Edges == { <<"listening", "processing">>, <<"processing", "speaking">>,
           <<"speaking", "idle">>, <<"processing", "idle">>,
           <<"error", "idle">> }

\* C3: once the session is created, every change of current_state follows
\* an edge of the turn state machine or leads to ERROR.
C3_Edges ==
    [][ (gw_pc # "accept" /\ current_state' # current_state)
        => (current_state' = "error"
            \/ <<current_state, current_state'>> \in Edges) ]_vars

C3_Witness ==
    /\ current_state = "idle"
    /\ gw_pc = "loop"
    /\ Len(yielded) > 0

\* ------------------------------------------------------------------- C4
EndAudioCall ==
    /\ gw_pc = "loop"
    /\ message_count' = message_count + 1
    /\ last_op' = "end_audio_input"

\* C4: end_audio_input outside LISTENING fails and changes nothing; in
\* LISTENING it moves to PROCESSING and starts exactly one pipeline task.
C4_EndAudioInput ==
    [][ EndAudioCall =>
        IF current_state # "listening"
        THEN /\ last_result' = FALSE
             /\ UNCHANGED <<current_state, reg_state, tasks_started,
                            pipe_pc, sent>>
        ELSE /\ last_result' = TRUE
             /\ current_state' = "processing"
             /\ tasks_started' = tasks_started + 1
             /\ pipe_pc = "none" /\ pipe_pc' = "sleep" ]_vars

C4_Witness ==
    /\ last_op = "end_audio_input"
    /\ last_result = FALSE
    /\ tasks_started = 1
    /\ current_state # "listening"

\* ------------------------------------------------------------------- C5
AudioChunkCall ==
    /\ gw_pc = "loop"
    /\ message_count' = message_count + 1
    /\ last_op' = "process_audio_chunk"

\* C5: process_audio_chunk outside LISTENING fails and leaves the state,
\* the audio buffer and the Transcription client untouched.
C5_AudioOutsideListening ==
    [][ (AudioChunkCall /\ current_state # "listening") =>
        /\ last_result' = FALSE
        /\ UNCHANGED <<current_state, reg_state, audio_buffer, asrVars,
                       asr_connects, asr_forwarded>> ]_vars

C5_Witness ==
    /\ last_op = "process_audio_chunk"
    /\ last_result = FALSE
    /\ current_state \in {"processing", "speaking", "idle", "error"}

\* ------------------------------------------------------------------- C6
\* The pipeline resumes after the grace period.
GraceStep == pipe_pc = "sleep" /\ pipe_pc' # "sleep" /\ ~pipe_cancel

ErrorCount(log) == Len(SelectSeq(log, IsError))

\* C6: with neither a finalized nor an interim transcript after the grace
\* period, the pipeline emits the single error no_transcript and calls
\* neither retrieval nor synthesis; with only an interim transcript,
\* retrieval is called with that interim text (unless the pipeline raised
\* before the call, which is reported as processing_failed).
C6_NoTranscript ==
    [][ /\ (GraceStep /\ final_transcript = <<>> /\ latest_interim = <<>>)
           => /\ sent' = sent \o <<ErrorMessage("no_transcript"),
                                   StateMessage("error", current_state)>>
              /\ rag_queries' = rag_queries
              /\ pipe_pc' # "rag_wait"
        /\ (GraceStep /\ final_transcript = <<>> /\ latest_interim # <<>>)
           => /\ ~HasError(sent', "no_transcript")
              /\ IF HasError(sent', "processing_failed")
                 THEN rag_queries' = rag_queries
                 ELSE /\ pipe_pc' = "rag_wait"
                      /\ rag_queries' = Append(rag_queries, latest_interim)
        /\ HasError(sent', "no_transcript")
           => /\ ErrorCount(sent') = 1
              /\ rag_queries' = <<>>
              /\ tts_requests' = 0 ]_vars

C6_Witness ==
    /\ HasError(sent, "no_transcript")
    /\ pipe_pc = "done"
    /\ rag_queries = <<>>

\* ------------------------------------------------------------------- C7
\* C7: in both retrieval modes a failed retrieval query is reported as the
\* error rag_failed and no synthesis request is made.
C7_RagFailed ==
    rag_failed => (HasError(sent, "rag_failed") /\ tts_requests = 0)

\* ------------------------------------------------------------------- C8
\* C8: once the pipeline has ended after reporting an error and the session
\* is not being torn down, the session is back in IDLE and a
\* state_update(IDLE) follows the error event.
C8_ErrorReturnsToIdle ==
    (pipe_pc = "done" /\ gw_pc = "loop" /\ ErrorCount(sent) > 0)
    => /\ current_state = "idle"
       /\ \E i, j \in 1..Len(sent) :
              /\ i < j
              /\ IsError(sent[i])
              /\ sent[j] = StateMessage("idle", "error")

\* ------------------------------------------------------------------- C9
\* C9: a session in IDLE after a completed turn, its connection open,
\* accepts audio again: the next binary frame is not rejected and the
\* gateway stays in its message loop.
C9_AcceptsAudioAgain ==
    [][ (AudioChunkCall /\ current_state = "idle" /\ ws_open
         /\ pipe_pc = "done" /\ Len(conversation_history) > 0)
        => (last_result' = TRUE /\ gw_pc' = "loop") ]_vars

\* ------------------------------------------------------------------ C10
\* C10: the transcript messages relayed to the client are, in order, the
\* first events received from the Transcription client.
C10_TranscriptOrder == IsPrefix(RelayedTranscripts, received)

C10_Witness ==
    /\ Len(RelayedTranscripts) >= 2
    /\ RelayedTranscripts[1] # RelayedTranscripts[2]

\* ------------------------------------------------------------------ C11
IsComplete(m) == m.type = "complete"

AtCapacityStrict(n) == n > max_concurrent_sessions

\* create_session: len(self.active_sessions) >= settings.max_concurrent_sessions
AtCapacity(n) == n >= max_concurrent_sessions

\* create_session for another connection, up to the first write on its
\* connection (or to its rejection, which changes nothing here).
OtherCreateSession ==
    /\ cap_pending < MaxPending
    /\ cap_pending' = IF AtCapacity(cap_active) THEN cap_pending
                      ELSE cap_pending + 1
    /\ UNCHANGED <<cap_active, probe_pc, probe_sent, sessionVars, managerVars, extVars>>

\* start_conversation returned: active_sessions[session_id] = session.
OtherStored ==
    /\ cap_pending > 0
    /\ cap_pending' = cap_pending - 1
    /\ cap_active' = cap_active + 1
    /\ UNCHANGED <<probe_pc, probe_sent, sessionVars, managerVars, extVars>>

\* close_session for another connection: del active_sessions[session_id].
OtherCloseSession ==
    /\ cap_active > (IF probe_pc = "loop" THEN 1 ELSE 0)
    /\ cap_active' = cap_active - 1
    /\ UNCHANGED <<cap_pending, probe_pc, probe_sent, sessionVars, managerVars, extVars>>

\* The probe connection is accepted and calls create_session.  At capacity
\* it returns None, and the gateway sends error(session_creation_failed) and
\* closes the connection; otherwise start_conversation sends its
\* state_update(LISTENING) and suspends in that write.
ProbeCreateSession ==
    /\ probe_pc = "accept"
    /\ IF AtCapacity(cap_active)
       THEN /\ probe_sent' = <<ErrorMessage("session_creation_failed")>>
            /\ probe_pc' = "refused"
       ELSE /\ probe_sent' = <<StateMessage("listening", "idle")>>
            /\ probe_pc' = "created"
    /\ UNCHANGED <<cap_active, cap_pending, sessionVars, managerVars, extVars>>

\* The probe's session is stored; the gateway sends `ready` and its own
\* state_update(LISTENING).
ProbeStored ==
    /\ probe_pc = "created"
    /\ cap_active' = cap_active + 1
    /\ probe_sent' = probe_sent \o <<ReadyMessage,
                                     StateMessage("listening", "idle")>>
    /\ probe_pc' = "loop"
    /\ UNCHANGED <<cap_pending, sessionVars, managerVars, extVars>>

\* The probe's connection ends: close_session.
ProbeCloseSession ==
    /\ probe_pc = "loop"
    /\ cap_active' = cap_active - 1
    /\ probe_pc' = "closed"
    /\ UNCHANGED <<cap_pending, probe_sent, sessionVars, managerVars, extVars>>

CapacityNext ==
    \/ OtherCreateSession
    \/ OtherStored
    \/ OtherCloseSession
    \/ ProbeCreateSession
    \/ ProbeStored
    \/ ProbeCloseSession

\* The single session of SessionInit stays as constructed.
CapacitySpecInit ==
    /\ SessionInit /\ enable_sentence_streaming
    /\ CapacityInit /\ RegistryInit /\ ExtInit

CapacitySpec == CapacitySpecInit /\ [][CapacityNext]_vars

\* ------------------------------------------------------------------ C12
\* C12: a connection attempt made while active_sessions holds
\* max_concurrent_sessions sessions is rejected: no session is added, the
\* client is sent an error and the connection is closed; neither `ready`
\* nor a state_update is ever sent on it.
C12_RejectedAtCapacity ==
    [][ /\ (probe_pc = "accept" /\ probe_pc' # "accept"
            /\ cap_active = max_concurrent_sessions)
           => /\ probe_pc' = "refused"
              /\ cap_active' = cap_active
              /\ cap_pending' = cap_pending
              /\ probe_sent' = <<ErrorMessage("session_creation_failed")>>
        /\ probe_pc = "refused" => UNCHANGED <<probe_pc, probe_sent>> ]_vars

C12_Witness ==
    /\ probe_pc = "refused"
    /\ cap_active = max_concurrent_sessions
    /\ \A i \in 1..Len(probe_sent) :
           ~IsReady(probe_sent[i]) /\ ~IsStateUpdate(probe_sent[i])

\* ------------------------------------------------------------------ C13
\* C13: under every interleaving of connection attempts and closes,
\* active_sessions never holds more than max_concurrent_sessions sessions.
C13_NeverExceedsCapacity == cap_active <= max_concurrent_sessions

\* ======================================================== session registry
\* SessionManager over the sessions SessionIds.  The registry compares
\* now - last_activity with the timeout, so each entry carries idle_for, the
\* seconds since its last_activity; turn_count counts the turns added to a
\* session, and turn k of a session is the number k.

managerUntouched == <<sessionVars, capVars, extVars>>

Present(sid) == sid \in reg_sessions

\* session.last_activity = datetime.utcnow() for a session that is present.
Touch(sid) == [idle_for EXCEPT ![sid] = IF Present(sid) THEN 0 ELSE @]

\* The expiry test with >= for >.
ExpiredAtTimeout(idle) == idle >= session_timeout_seconds

\* _cleanup_expired_sessions:
\* now - session.last_activity > timedelta(seconds=session_timeout_seconds)
Expired(idle) == idle > session_timeout_seconds

\* SessionManager.get_session_stats: total_sessions and
\* total_conversation_turns.
get_session_stats ==
    [total_sessions |-> Cardinality(reg_sessions),
     sessions |-> reg_sessions]

\* OrchestratorService.create_session for a fresh session id:
\* SessionManager.create_session, start_conversation (registry state
\* LISTENING) and the entry in active_sessions.
OpenSession(sid) ==
    /\ sid \notin used_ids
    /\ used_ids' = used_ids \cup {sid}
    /\ reg_sessions' = reg_sessions \cup {sid}
    /\ idle_for' = [idle_for EXCEPT ![sid] = 0]
    /\ reg_states' = [reg_states EXCEPT ![sid] = "listening"]
    /\ reg_history' = [reg_history EXCEPT ![sid] = <<>>]
    /\ conv_sessions' = conv_sessions \cup {sid}
    /\ reg_last' = [op |-> "create_session", sid |-> sid, found |-> TRUE]
    /\ UNCHANGED <<turn_count, swept, late_events, ticks, managerUntouched>>

\* SessionManager.get_session
MgrGetSession(sid) ==
    /\ sid \in used_ids
    /\ idle_for' = Touch(sid)
    /\ reg_last' = [op |-> "get_session", sid |-> sid, found |-> Present(sid)]
    /\ UNCHANGED <<reg_sessions, reg_states, reg_history, turn_count,
                   conv_sessions, used_ids, swept, late_events, ticks,
                   managerUntouched>>

\* SessionManager.update_session_state
MgrUpdateState(sid, state) ==
    /\ sid \in used_ids
    /\ idle_for' = Touch(sid)
    /\ reg_states' = [reg_states EXCEPT ![sid] =
                          IF Present(sid) THEN state ELSE @]
    /\ reg_last' = [op |-> "update_session_state", sid |-> sid,
                    found |-> Present(sid)]
    /\ UNCHANGED <<reg_sessions, reg_history, turn_count, conv_sessions,
                   used_ids, swept, late_events, ticks, managerUntouched>>

\* The turns added to the sessions S that the registry still holds.
RECURSIVE TurnsAdded(_)
TurnsAdded(S) ==
    IF S = {} THEN 0
    ELSE LET sid == CHOOSE x \in S : TRUE
         IN  turn_count[sid] + TurnsAdded(S \ {sid})

\* SessionManager.add_conversation_turn
MgrAddTurn(sid) ==
    /\ sid \in used_ids
    /\ TurnsAdded(SessionIds) < MaxTurns
    /\ idle_for' = Touch(sid)
    /\ IF Present(sid)
       THEN /\ turn_count' = [turn_count EXCEPT ![sid] = @ + 1]
            /\ reg_history' = [reg_history EXCEPT ![sid] =
                                   trim_history(Append(@, turn_count[sid] + 1))]
       ELSE UNCHANGED <<turn_count, reg_history>>
    /\ reg_last' = [op |-> "add_conversation_turn", sid |-> sid,
                    found |-> Present(sid)]
    /\ UNCHANGED <<reg_sessions, reg_states, conv_sessions, used_ids, swept,
                   late_events, ticks, managerUntouched>>

\* SessionManager.get_conversation_history
MgrGetHistory(sid) ==
    /\ sid \in used_ids
    /\ idle_for' = Touch(sid)
    /\ reg_last' = [op |-> "get_conversation_history", sid |-> sid,
                    found |-> Present(sid)]
    /\ UNCHANGED <<reg_sessions, reg_states, reg_history, turn_count,
                   conv_sessions, used_ids, swept, late_events, ticks,
                   managerUntouched>>

\* del self.sessions[session_id] for the sessions gone: their SessionData is
\* dropped, f keeps the entries of the others.
Dropped(f, gone, empty) ==
    [sid \in SessionIds |-> IF sid \in gone THEN empty ELSE f[sid]]

\* The clock advances by d seconds.
Tick(d) ==
    /\ ticks < MaxTicks
    /\ ticks' = ticks + 1
    /\ idle_for' = [sid \in SessionIds |->
                        IF Present(sid) THEN idle_for[sid] + d ELSE idle_for[sid]]
    /\ reg_last' = [op |-> "tick", sid |-> 0, found |-> FALSE]
    /\ UNCHANGED <<reg_sessions, reg_states, reg_history, turn_count,
                   conv_sessions, used_ids, swept, late_events,
                   managerUntouched>>

\* One cycle of _cleanup_expired_sessions.
Sweep ==
    LET expired_sessions ==
            {sid \in reg_sessions : Expired(idle_for[sid])}
    IN  /\ reg_sessions' = reg_sessions \ expired_sessions
        /\ swept' = swept \cup expired_sessions
        /\ reg_last' = [op |-> "sweep", sid |-> 0, found |-> FALSE]
        /\ reg_states' = Dropped(reg_states, expired_sessions, "idle")
        /\ reg_history' = Dropped(reg_history, expired_sessions, <<>>)
        /\ turn_count' = Dropped(turn_count, expired_sessions, 0)
        /\ UNCHANGED <<idle_for, conv_sessions, used_ids, late_events, ticks,
                       managerUntouched>>

\* ConversationSession._send_message for a session of active_sessions: the
\* event goes out while is_active holds and the connection is open.
DeliverEvent(sid) ==
    /\ sid \in conv_sessions
    /\ late_events' = IF sid \in swept THEN late_events \cup {sid}
                      ELSE late_events
    /\ reg_last' = [op |-> "send_message", sid |-> sid, found |-> Present(sid)]
    /\ UNCHANGED <<reg_sessions, idle_for, reg_states, reg_history,
                   turn_count, conv_sessions, used_ids, swept, ticks,
                   managerUntouched>>

\* OrchestratorService.close_session: close, del active_sessions[...] and
\* SessionManager.delete_session.
CloseSession(sid) ==
    /\ sid \in conv_sessions
    /\ conv_sessions' = conv_sessions \ {sid}
    /\ reg_sessions' = reg_sessions \ {sid}
    /\ reg_states' = Dropped(reg_states, {sid}, "idle")
    /\ reg_history' = Dropped(reg_history, {sid}, <<>>)
    /\ turn_count' = Dropped(turn_count, {sid}, 0)
    /\ reg_last' = [op |-> "close_session", sid |-> sid, found |-> Present(sid)]
    /\ UNCHANGED <<idle_for, used_ids, swept, late_events, ticks,
                   managerUntouched>>

TickSizes == {1, session_timeout_seconds}
RegistryStates == {"processing"}

RegistryNext ==
    \/ \E sid \in SessionIds : OpenSession(sid)
    \/ \E sid \in SessionIds : MgrGetSession(sid)
    \/ \E sid \in SessionIds, state \in RegistryStates :
           MgrUpdateState(sid, state)
    \/ \E d \in TickSizes : Tick(d)
    \/ Sweep
    \/ \E sid \in SessionIds : DeliverEvent(sid)
    \/ \E sid \in SessionIds : CloseSession(sid)

RegistrySpecInit ==
    /\ SessionInit /\ enable_sentence_streaming
    /\ CapacityInit /\ RegistryInit /\ ExtInit

RegistrySpec == RegistrySpecInit /\ [][RegistryNext]_vars

\* The registry under the turns of its conversations.
HistoryNext ==
    \/ \E sid \in SessionIds : OpenSession(sid)
    \/ \E sid \in SessionIds : MgrAddTurn(sid)
    \/ \E sid \in SessionIds : MgrGetHistory(sid)
    \/ \E sid \in SessionIds : CloseSession(sid)

HistorySpec == RegistrySpecInit /\ [][HistoryNext]_vars

\* ------------------------------------------------------------------ C14
\* C14: a sweep cycle removes from the registry every session idle for more
\* than session_timeout_seconds and keeps every other one, and stats()
\* then reports total_sessions smaller by the number removed.
C14_SweepRemovesExpired ==
    [][ reg_last'.op = "sweep" =>
        LET gone == {sid \in reg_sessions :
                         idle_for[sid] > session_timeout_seconds}
        IN  /\ \A sid \in reg_sessions :
                   (sid \in gone) <=> (sid \notin reg_sessions')
            /\ get_session_stats'.total_sessions =
                   get_session_stats.total_sessions - Cardinality(gone) ]_vars

C14_Witness ==
    /\ reg_last.op = "sweep"
    /\ \E a \in swept, b \in reg_sessions :
           idle_for[b] = session_timeout_seconds

\* ------------------------------------------------------------------ C15
\* C15: once the sweep has removed a session from the registry, no event is
\* delivered to that session's client any more and the session is no longer
\* one of the active conversations.
C15_SweptSessionSilent ==
    /\ swept \cap conv_sessions = {}
    /\ late_events = {}

\* ------------------------------------------------------------------ C16
\* C16: a registry operation on a session idle for more than
\* session_timeout_seconds deletes the session and reports not-found; it
\* does not return the session and does not refresh its last_activity.
C16_NoSessionPastExpiry ==
    [][ \A sid \in reg_sessions :
            ( /\ idle_for[sid] > session_timeout_seconds
              /\ reg_last'.sid = sid
              /\ reg_last'.op \in {"get_session", "update_session_state",
                                   "get_conversation_history"} )
            => ( /\ ~reg_last'.found
                 /\ sid \notin reg_sessions'
                 /\ idle_for'[sid] = idle_for[sid] ) ]_vars

\* ------------------------------------------------------------------ C17
\* C17: after any sequence of added turns a session's conversation_history
\* has at most max_session_history entries, and they are the most recently
\* added turns in the order they were added.
C17_HistoryBounded ==
    \A sid \in reg_sessions :
        LET n == IF turn_count[sid] < max_session_history
                 THEN turn_count[sid] ELSE max_session_history
        IN  /\ Len(reg_history[sid]) <= max_session_history
            /\ reg_history[sid] = [i \in 1..n |-> turn_count[sid] - n + i]

C17_Witness ==
    \E sid \in reg_sessions :
        /\ turn_count[sid] = max_session_history + 1
        /\ Len(reg_history[sid]) = max_session_history
        /\ reg_history[sid][1] = 2
        /\ reg_last.op = "add_conversation_turn"

\* ------------------------------------------------------------------ C18
\* C18: a text frame that is not valid JSON, or whose type is unknown, is
\* ignored: the receive loop goes on with the connection open, the session's
\* state is unchanged and nothing is sent to the client.
C18_MalformedIgnored ==
    [][ (message_count' = message_count + 1 /\ last_op' = "ignored_text")
        => ( /\ gw_pc' = "loop"
             /\ ws_open' = ws_open
             /\ is_active' = is_active
             /\ current_state' = current_state
             /\ reg_state' = reg_state
             /\ sent' = sent ) ]_vars

\* A later audio_end is processed: with two client messages and no audio
\* buffered, the message before it was an ignored text frame.
C18_Witness ==
    /\ message_count = 2
    /\ audio_buffer = <<>>
    /\ last_op = "end_audio_input"
    /\ last_result
    /\ ws_open
    /\ gw_pc = "loop"

\* ------------------------------------------------------------------ C19
\* What _cleanup_session leaves behind: the session's activity flag and its
\* Transcription and Synthesis clients with their manager entries.
CleanupState ==
    <<is_active, asr_in, asr_ws, asr_connected, tts_in, tts_ws, tts_connected>>

CleanedUp ==
    /\ ~is_active
    /\ ~asr_in /\ ~asr_ws /\ ~asr_connected
    /\ ~tts_in /\ ~tts_ws /\ ~tts_connected
    /\ asr_task # "running"
    /\ pipe_pc \in {"none", "done", "cl_asr", "cl_tts"} \/ pipe_cancel

\* C19: when ConversationSession.close has run, the listening task and the
\* turn-processing task are cancelled unless they were done, both clients
\* are disconnected and removed from their managers and the session is
\* inactive.
\* inactive; a cleanup that runs after close has completed changes nothing
\* of this, and no cleanup meets a missing manager entry.
C19_CloseCleansUp ==
    /\ [](gw_pc = "ws_close" => CleanedUp)
    /\ [][ /\ gw_pc \in {"ws_close", "closed"}
               => CleanupState' = CleanupState
           /\ (gw_pc = "cl_asr" /\ gw_pc' # "cl_asr") => asr_in
           /\ (gw_pc = "cl_tts" /\ gw_pc' # "cl_tts") => tts_in ]_vars

\* close ran on a session whose pipeline had finished a turn and cleaned up
\* itself, with a listening task to cancel.
C19_Witness ==
    /\ gw_pc = "ws_close"
    /\ CleanedUp
    /\ pipe_pc = "done"
    /\ asr_task = "cancelling"
    /\ \E i \in 1..Len(sent) : IsComplete(sent[i])

\* ------------------------------------------------------------------ C20
\* A step in which the pipeline calls stream_synthesis for a sentence.
SynthesisCalled ==
    /\ pipe_pc \in {"rag_wait", "pace"}
    /\ pipe_pc' \in {"tts_connect", "tts_recv", "pace"}
    /\ sentences' # sentences
    /\ sentences' # <<>>

\* C20: every call of stream_synthesis sends its request over a live
\* connection: it connects first when the client is not connected or the
\* backend has closed the connection after the previous request, so the
\* request of every sentence reaches the backend.
C20_Restartable ==
    [][ SynthesisCalled =>
            \/ pipe_pc' = "tts_connect"
            \/ /\ pipe_pc' = "tts_recv"
               /\ tts_backend_open
               /\ tts_requests' = tts_requests + 1 ]_vars

\* =================================================== transcript accumulator
\* _handle_transcript over every kind of transcript event, with the
\* fallback of the turn pipeline: an accumulator followed without the rest of
\* the session.
AllTranscriptEvents ==
    { [text |-> <<"a", " ">>, is_final |-> TRUE],
      [text |-> <<" ", "b">>, is_final |-> TRUE],
      [text |-> <<" ">>, is_final |-> TRUE],
      [text |-> <<>>, is_final |-> TRUE],
      [text |-> <<" ", "c">>, is_final |-> FALSE] }

accumulatorUntouched ==
    <<gwVars, regVars, reg_state, current_state, is_active, audio_buffer,
      asrVars, handlers, asr_connects, asr_forwarded, pipe_pc, pipe_cancel,
      tasks_started, pipeLocals, ttsVars, enable_sentence_streaming, auxVars>>

\* _handle_transcript appending the text of a final event as it came.
TrHandleUnstripped(ev) ==
    /\ Len(received) < MaxHandled
    /\ received' = Append(received, ev)
    /\ sent' = _send_message(sent, <<TranscriptMessage(ev.text, ev.is_final)>>)
    /\ IF ev.is_final /\ ev.text # <<>>
       THEN /\ final_segments' = Append(final_segments, ev.text)
            /\ final_transcript' =
                   JoinSpace(NonEmpty(Append(final_segments, ev.text)))
            /\ latest_interim' = <<>>
       ELSE /\ latest_interim' = Strip(ev.text)
            /\ UNCHANGED <<final_segments, final_transcript>>
    /\ UNCHANGED accumulatorUntouched

\* ConversationSession._handle_transcript for the event ev.
TrHandle(ev) ==
    /\ Len(received) < MaxHandled
    /\ received' = Append(received, ev)
    /\ sent' = _send_message(sent, <<TranscriptMessage(ev.text, ev.is_final)>>)
    /\ IF ev.is_final /\ ev.text # <<>>
       THEN /\ final_segments' = Append(final_segments, Strip(ev.text))
            /\ final_transcript' =
                   JoinSpace(NonEmpty(Append(final_segments, Strip(ev.text))))
            /\ latest_interim' = <<>>
       ELSE /\ latest_interim' = Strip(ev.text)
            /\ UNCHANGED <<final_segments, final_transcript>>
    /\ UNCHANGED accumulatorUntouched

\* _process_conversation after the grace period: with no final transcript the
\* latest interim becomes the final transcript.
TrFallback ==
    /\ final_transcript = <<>>
    /\ latest_interim # <<>>
    /\ final_transcript' = TranscriptFallback
    /\ UNCHANGED <<sent, received, final_segments, latest_interim,
                   accumulatorUntouched>>

TranscriptNext ==
    \/ \E ev \in AllTranscriptEvents : TrHandle(ev)
    \/ TrFallback

TranscriptSpec == CapacitySpecInit /\ [][TranscriptNext]_vars

\* ------------------------------------------------------------------ C21
\* The events whose handler has run, in arrival order.
Handled == SubSeq(received, 1, Len(received) - Len(handlers))

RECURSIVE FinalTexts(_)
FinalTexts(evs) ==
    IF evs = <<>> THEN <<>>
    ELSE IF Head(evs).is_final
         THEN <<Head(evs).text>> \o FinalTexts(Tail(evs))
         ELSE FinalTexts(Tail(evs))

\* The segments kept: the stripped texts of the final events with a text.
RECURSIVE KeptSegments(_)
KeptSegments(evs) ==
    IF evs = <<>> THEN <<>>
    ELSE IF Head(evs).is_final /\ Head(evs).text # <<>>
         THEN <<Strip(Head(evs).text)>> \o KeptSegments(Tail(evs))
         ELSE KeptSegments(Tail(evs))

\* C21 as stated: the final transcript is the texts of the final events
\* joined by single spaces in arrival order.
C21_JoinedFinalTexts == final_transcript = JoinSpace(FinalTexts(Handled))

\* C21: the finalized segments are the stripped texts of the final events
\* that carry a text, in arrival order, and once one of them is not blank
\* the final transcript is the non-blank segments joined by single spaces;
\* until then it is empty or the interim the pipeline fell back to.  A
\* final event with a text clears the scratch interim; any other event
\* overwrites the scratch interim only.
C21_FinalTranscript ==
    /\ [] ( /\ final_segments = KeptSegments(Handled)
            /\ NonEmpty(final_segments) # <<>> =>
                   final_transcript = JoinSpace(NonEmpty(final_segments))
            /\ NonEmpty(final_segments) = <<>> =>
                   \/ final_transcript = <<>>
                   \/ \E i \in 1..Len(Handled) :
                          final_transcript = Strip(Handled[i].text) )
    /\ [][ Handled' # Handled =>
             LET ev == Handled'[Len(Handled')]
             IN  IF ev.is_final /\ ev.text # <<>>
                 THEN latest_interim' = <<>>
                 ELSE /\ latest_interim' = Strip(ev.text)
                      /\ final_segments' = final_segments
                      /\ final_transcript' = final_transcript ]_vars

\* Two final events, one of them blank, around a non-final one.
C21_Witness ==
    /\ Len(Handled) = 3
    /\ Handled[1].is_final /\ Handled[1].text = <<" ", "b">>
    /\ ~Handled[2].is_final
    /\ Handled[3].is_final /\ Handled[3].text = <<"a", " ">>
    /\ final_transcript = <<"b", " ", "a">>
    /\ latest_interim = <<>>

\* ------------------------------------------------------------------ C22
\* C22: a session holds at most one transcription connection: the client is
\* connected by an audio chunk accepted in LISTENING, a connect is issued
\* only while the client holds no connection and no listening task is
\* running, and a listening task runs only on that one connection.
C22_SingleConnection ==
    /\ [] ( /\ asr_connects <= 1
            /\ (asr_ws \/ asr_connected) => audio_buffer # <<>>
            /\ asr_task = "running" => asr_connects = 1 )
    /\ [][ asr_connects' # asr_connects =>
               /\ ~asr_connected /\ ~asr_ws
               /\ current_state = "listening"
               /\ asr_task \in {"none", "done"}
               /\ asr_task' = "running" ]_vars

\* Two chunks forwarded over the connection the first of them opened.
C22_Witness ==
    /\ asr_connects = 1
    /\ asr_forwarded = 2
    /\ Len(audio_buffer) = 2
    /\ asr_connected /\ asr_ws
    /\ asr_task = "running"

\* ======================================================= synthesis backend
\* StreamingTTSService.synthesize_streaming for a text of syn_n sentences:
\* syn_log[i] holds the outcomes of the attempts made for sentence i,
\* syn_waits[i] the waits slept between them, syn_out the tuples yielded.
synthUntouched == <<sessionVars, capVars, managerVars, streamVars, splitVars>>

RECURSIVE Pow2(_)
Pow2(k) == IF k = 0 THEN 1 ELSE 2 * Pow2(k - 1)

\* A wait that does not grow.
backoff_fixed(attempt) == retry_delay

\* _synthesize_with_retry: self.retry_delay * (2 ** attempt)
backoff(attempt) == retry_delay * Pow2(attempt)

SynMetadata(n) == [type |-> "metadata", total_chunks |-> n]
SynAudio(i) == [type |-> "audio", chunk |-> i]
SynError == [type |-> "error"]
SynComplete(ok, failed) ==
    [type |-> "complete", successful_chunks |-> ok, failed_chunks |-> failed]

\* synthesize_streaming up to the first attempt: no sentence gives an error,
\* else the metadata is yielded.
SynStart(n) ==
    /\ syn_pc = "start"
    /\ syn_n' = n
    /\ syn_log' = [i \in 1..n |-> <<>>]
    /\ syn_waits' = [i \in 1..n |-> <<>>]
    /\ IF n = 0
       THEN /\ syn_out' = <<SynError>>
            /\ syn_pc' = "done"
            /\ UNCHANGED syn_i
       ELSE /\ syn_out' = <<SynMetadata(n)>>
            /\ syn_pc' = "attempt"
            /\ syn_i' = 1
    /\ UNCHANGED <<syn_attempt, successful_chunks, failed_chunks,
                   synthUntouched>>

\* The loop of synthesize_streaming goes on after sentence syn_i, whose
\* audio was yielded (audio) or not: the next sentence, or `complete`.
SynNextSentence(audio) ==
    LET ok == IF audio THEN successful_chunks + 1 ELSE successful_chunks
        failed == IF audio THEN failed_chunks ELSE failed_chunks + 1
        out == IF audio THEN Append(syn_out, SynAudio(syn_i)) ELSE syn_out
    IN  /\ successful_chunks' = ok
        /\ failed_chunks' = failed
        /\ syn_attempt' = 0
        /\ IF syn_i < syn_n
           THEN /\ syn_i' = syn_i + 1
                /\ syn_pc' = "attempt"
                /\ syn_out' = out
           ELSE /\ syn_pc' = "done"
                /\ syn_out' = Append(out, SynComplete(ok, failed))
                /\ UNCHANGED syn_i

\* The request ends with an error at a sentence whose retries are exhausted.
SynAttemptAborting(ok) ==
    /\ syn_pc = "attempt"
    /\ syn_log' = [syn_log EXCEPT ![syn_i] = Append(@, ok)]
    /\ IF ok
       THEN SynNextSentence(TRUE) /\ UNCHANGED syn_waits
       ELSE IF syn_attempt < max_retries - 1
       THEN /\ syn_waits' = [syn_waits EXCEPT ![syn_i] =
                                 Append(@, backoff(syn_attempt))]
            /\ syn_pc' = "sleep"
            /\ UNCHANGED <<syn_i, syn_attempt, syn_out, successful_chunks,
                           failed_chunks>>
       ELSE /\ syn_out' = Append(syn_out, SynError)
            /\ syn_pc' = "done"
            /\ failed_chunks' = failed_chunks + 1
            /\ UNCHANGED <<syn_i, syn_attempt, syn_waits, successful_chunks>>
    /\ UNCHANGED <<syn_n, synthUntouched>>

\* One attempt of _synthesize_with_retry for sentence syn_i; ok: whether
\* GoogleTTSService.synthesize returns audio (it raises otherwise).
SynAttempt(ok) ==
    /\ syn_pc = "attempt"
    /\ syn_log' = [syn_log EXCEPT ![syn_i] = Append(@, ok)]
    /\ IF ok
       THEN SynNextSentence(TRUE) /\ UNCHANGED syn_waits
       ELSE IF syn_attempt < max_retries - 1
       THEN /\ syn_waits' = [syn_waits EXCEPT ![syn_i] =
                                 Append(@, backoff(syn_attempt))]
            /\ syn_pc' = "sleep"
            /\ UNCHANGED <<syn_i, syn_attempt, syn_out, successful_chunks,
                           failed_chunks>>
       ELSE SynNextSentence(FALSE) /\ UNCHANGED syn_waits
    /\ UNCHANGED <<syn_n, synthUntouched>>

\* asyncio.sleep of the backoff returns: the next attempt.
SynWake ==
    /\ syn_pc = "sleep"
    /\ syn_attempt' = syn_attempt + 1
    /\ syn_pc' = "attempt"
    /\ UNCHANGED <<syn_n, syn_i, syn_log, syn_waits, syn_out,
                   successful_chunks, failed_chunks, synthUntouched>>

SynthNext ==
    \/ \E n \in 0..MaxSentences : SynStart(n)
    \/ \E ok \in BOOLEAN : SynAttempt(ok)
    \/ SynWake

SynthSpec == CapacitySpecInit /\ [][SynthNext]_vars

\* ------------------------------------------------------------------ C23
Failures(log) == Len(SelectSeq(log, LAMBDA ok : ~ok))

\* C23: no sentence gets more than max_retries attempts; the wait after
\* failed attempt k (from 0) that is not the last is retry_delay * 2^k, and
\* no wait follows the last attempt; a success after failures yields the
\* sentence's audio, and no error event is yielded for a failed attempt.
C23_RetryBackoff ==
    \A i \in 1..syn_n :
        /\ Len(syn_log[i]) <= max_retries
        /\ \A k \in 1..Len(syn_log[i]) :
               syn_log[i][k] => k = Len(syn_log[i])
        /\ Len(syn_waits[i]) =
               IF Failures(syn_log[i]) < max_retries
               THEN Failures(syn_log[i]) ELSE max_retries - 1
        /\ \A k \in 1..Len(syn_waits[i]) :
               syn_waits[i][k] = retry_delay * (2 ^ (k - 1))
        /\ (syn_log[i] # <<>> /\ syn_log[i][Len(syn_log[i])])
               => \E j \in 1..Len(syn_out) : syn_out[j] = SynAudio(i)
        /\ \A j \in 1..Len(syn_out) : syn_out[j].type # "error"

\* A sentence failed twice and then succeeded.
C23_Witness ==
    \E i \in 1..syn_n :
        /\ syn_log[i] = <<FALSE, FALSE, TRUE>>
        /\ syn_waits[i] = <<500, 1000>>
        /\ \E j \in 1..Len(syn_out) : syn_out[j] = SynAudio(i)

\* ------------------------------------------------------------------ C24
\* The sentences whose audio was yielded, in the order of syn_out.
RECURSIVE AudioOf(_)
AudioOf(out) ==
    IF out = <<>> THEN <<>>
    ELSE IF Head(out).type = "audio"
         THEN <<Head(out).chunk>> \o AudioOf(Tail(out))
         ELSE AudioOf(Tail(out))

\* The sentences among 1..n whose last attempt succeeded, in order.
RECURSIVE Succeeded(_)
Succeeded(n) ==
    IF n = 0 THEN <<>>
    ELSE IF syn_log[n] # <<>> /\ syn_log[n][Len(syn_log[n])]
         THEN Append(Succeeded(n - 1), n)
         ELSE Succeeded(n - 1)

\* C24: a sentence that exhausts its retries is skipped: when the request
\* of a text with sentences is done every sentence has been attempted, the
\* audio of those that succeeded has been yielded in sentence order, the
\* last tuple is `complete`, none is an error, and successful_chunks plus
\* failed_chunks is the number of sentences.
C24_ExhaustedSkipped ==
    (syn_pc = "done" /\ syn_n > 0) =>
        /\ \A i \in 1..syn_n : syn_log[i] # <<>>
        /\ AudioOf(syn_out) = Succeeded(syn_n)
        /\ \A j \in 1..Len(syn_out) : syn_out[j].type # "error"
        /\ syn_out[Len(syn_out)] =
               SynComplete(successful_chunks, failed_chunks)
        /\ successful_chunks + failed_chunks = syn_n
        /\ successful_chunks = Len(Succeeded(syn_n))

\* The first of three sentences exhausted its retries, the others were
\* delivered.
C24_Witness ==
    /\ syn_pc = "done"
    /\ syn_n = 3
    /\ syn_log[1] = <<FALSE, FALSE, FALSE>>
    /\ AudioOf(syn_out) = <<2, 3>>
    /\ syn_out[Len(syn_out)] = SynComplete(2, 1)

\* ------------------------------------------------------------------ C25
\* C25: when the turn-processing task is done, its cleanup has run to the
\* end: the session's Transcription and Synthesis clients are disconnected
\* and removed from their managers.
C25_PipelineCleanedUp ==
    pipe_pc = "done" =>
        /\ ~asr_in /\ ~asr_ws /\ ~asr_connected
        /\ ~tts_in /\ ~tts_ws /\ ~tts_connected

\* =================================================== transcription backend
\* StreamingSession: the handler of the connection calls add_audio_chunk and
\* stop_recognition, the recognizer pulls audio_generator in the worker.
\* Chunks are numbered in the order of the calls; None is the end-of-stream
\* mark of the queue.
None == 0

streamUntouched == <<sessionVars, capVars, managerVars, synthVars, splitVars>>

\* StreamingSession.add_audio_chunk
add_audio_chunk ==
    /\ added < MaxAdded
    /\ added' = added + 1
    /\ IF ~stop_event
       THEN /\ audio_queue' = Append(audio_queue, added + 1)
            /\ accepted' = Append(accepted, added + 1)
            /\ UNCHANGED late
       ELSE /\ late' = late \cup {added + 1}
            /\ UNCHANGED <<audio_queue, accepted>>
    /\ UNCHANGED <<stop_event, gen_pc, gen_yielded, stop_pc, thread_alive,
                   streamUntouched>>

\* StreamingSession.stop_recognition up to the join.
stop_recognition ==
    /\ stop_pc = "idle"
    /\ stop_event' = TRUE
    /\ audio_queue' = Append(audio_queue, None)
    /\ stop_pc' = IF thread_alive THEN "joining" ELSE "returned"
    /\ UNCHANGED <<added, accepted, late, gen_pc, gen_yielded, thread_alive,
                   streamUntouched>>

\* A join that waits for the thread without a timeout.
JoinReturnsUnbounded ==
    /\ stop_pc = "joining"
    /\ ~thread_alive
    /\ stop_pc' = "returned"
    /\ UNCHANGED <<audio_queue, stop_event, added, accepted, late, gen_pc,
                   gen_yielded, thread_alive, streamUntouched>>

\* recognition_thread.join(timeout=5.0) returns: the thread ended, or the
\* timeout passed with the thread alive.
JoinReturns ==
    /\ stop_pc = "joining"
    /\ stop_pc' = "returned"
    /\ UNCHANGED <<audio_queue, stop_event, added, accepted, late, gen_pc,
                   gen_yielded, thread_alive, streamUntouched>>

\* audio_generator: while not self.stop_event.is_set()
GenCheck ==
    /\ gen_pc = "check"
    /\ gen_pc' = IF stop_event THEN "ended" ELSE "get"
    /\ UNCHANGED <<audio_queue, stop_event, added, accepted, late,
                   gen_yielded, stop_pc, thread_alive, streamUntouched>>

\* audio_generator: audio_queue.get(timeout=1.0) returns a chunk, which is
\* yielded, or None, or times out on the empty queue.
GenGet ==
    /\ gen_pc = "get"
    /\ IF audio_queue = <<>>
       THEN /\ gen_pc' = "check"
            /\ UNCHANGED <<audio_queue, gen_yielded>>
       ELSE /\ audio_queue' = Tail(audio_queue)
            /\ IF Head(audio_queue) = None
               THEN gen_pc' = "ended" /\ UNCHANGED gen_yielded
               ELSE /\ gen_pc' = "yield"
                    /\ gen_yielded' = Append(gen_yielded, Head(audio_queue))
    /\ UNCHANGED <<stop_event, added, accepted, late, stop_pc, thread_alive,
                   streamUntouched>>

\* The recognizer asks for the next request: the generator resumes after
\* its yield.
GenResume ==
    /\ gen_pc = "yield"
    /\ gen_pc' = "check"
    /\ UNCHANGED <<audio_queue, stop_event, added, accepted, late,
                   gen_yielded, stop_pc, thread_alive, streamUntouched>>

\* The audio generator as pulled by the recognizer.
GenStep == GenCheck \/ GenGet \/ GenResume

\* process_audio_stream returns after the end of the requests: the thread
\* ends.
ThreadEnds ==
    /\ gen_pc = "ended"
    /\ thread_alive
    /\ thread_alive' = FALSE
    /\ UNCHANGED <<audio_queue, stop_event, added, accepted, late, gen_pc,
                   gen_yielded, stop_pc, streamUntouched>>

StreamNext ==
    \/ add_audio_chunk
    \/ stop_recognition
    \/ JoinReturns
    \/ GenCheck
    \/ GenGet
    \/ GenResume
    \/ ThreadEnds

StreamSpec == CapacitySpecInit /\ [][StreamNext]_vars

\* The recognizer keeps pulling the generator, and the timeout of the join
\* passes; nothing makes the recognition itself come to an end.
StreamLiveSpec ==
    StreamSpec /\ WF_vars(GenStep) /\ WF_vars(JoinReturns)

\* ------------------------------------------------------------------ C26
\* C26: once stop_recognition has set the stop flag the audio generator
\* terminates and stop_recognition returns, also while the recognition
\* thread is alive; a chunk passed to add_audio_chunk after the flag was set
\* is never yielded, and the chunks are yielded in the order they were added.
C26_StopTerminates ==
    /\ [] ( /\ \A k \in 1..Len(gen_yielded) : gen_yielded[k] \notin late
            /\ Len(gen_yielded) <= Len(accepted)
            /\ gen_yielded = SubSeq(accepted, 1, Len(gen_yielded)) )
    /\ (stop_event ~> gen_pc = "ended")
    /\ (stop_event ~> stop_pc = "returned")

\* stop_recognition returned with the thread alive, after two chunks were
\* yielded and a later one was refused.
C26_Witness ==
    /\ stop_pc = "returned"
    /\ thread_alive
    /\ gen_yielded = <<1, 2>>
    /\ late = {3}

\* ======================================================= sentence splitter
\* _split_into_sentences applied to every text of at most MaxText characters
\* over a letter, two terminators and the blank, and then to each sentence
\* it returned.
SplitAlphabet == {"h", ".", "?", " "}
SplitTexts == UNION {[1..n -> SplitAlphabet] : n \in 0..MaxText}

splitUntouched == <<sessionVars, capVars, managerVars, synthVars, streamVars>>

\* sentences = self._split_into_sentences(rag_response.answer)
SplitCall(text) ==
    /\ split_pc = "idle"
    /\ split_text' = text
    /\ split_sentences' = _split_into_sentences(text)
    /\ split_pc' = "split"
    /\ UNCHANGED <<split_again, splitUntouched>>

\* The splitter applied to each sentence returned.
SplitAgain ==
    /\ split_pc = "split"
    /\ split_again' = [i \in 1..Len(split_sentences) |->
                           _split_into_sentences(split_sentences[i])]
    /\ split_pc' = "resplit"
    /\ UNCHANGED <<split_text, split_sentences, splitUntouched>>

SplitNext ==
    \/ \E text \in SplitTexts : SplitCall(text)
    \/ SplitAgain

SplitSpec == CapacitySpecInit /\ [][SplitNext]_vars

\* ------------------------------------------------------------------ C27
IsTerminator(c) == c \in sentence_endings
Terminators(t) == {k \in 1..Len(t) : IsTerminator(t[k])}

\* One terminator, at the end of the text.
SingleTerminated(t) == t # <<>> /\ Terminators(t) = {Len(t)}

\* C27 as stated: a single sentence ending in one terminator is returned as
\* a one-element list equal to the input.
C27_EqualToInput ==
    (split_pc # "idle" /\ SingleTerminated(split_text))
        => split_sentences = <<split_text>>

\* C27: a text that is a single sentence ending in one terminator, and a
\* non-blank text without a terminator, each give exactly one sentence, the
\* trimmed input; the splitter applied to a returned sentence returns that
\* sentence alone.
C27_Idempotent ==
    /\ (split_pc # "idle" /\ SingleTerminated(split_text))
           => split_sentences = <<Strip(split_text)>>
    /\ ( /\ split_pc # "idle"
         /\ Terminators(split_text) = {}
         /\ Strip(split_text) # <<>> )
           => split_sentences = <<Strip(split_text)>>
    /\ split_pc = "resplit" =>
           \A i \in 1..Len(split_sentences) :
               split_again[i] = <<split_sentences[i]>>

\* A terminated sentence after a blank, split and split again.
C27_Witness ==
    /\ split_pc = "resplit"
    /\ split_text = <<" ", "h", ".">>
    /\ split_sentences = << <<"h", ".">> >>
    /\ split_again = << << <<"h", ".">> >> >>

\* An unterminated text between blanks.
C27_WitnessNoTerminator ==
    /\ split_pc = "resplit"
    /\ split_text = <<" ", "h", "h", " ">>
    /\ split_sentences = << <<"h", "h">> >>

\* ------------------------------------------------------------------ C28
\* C28: the splitter returns no empty sentence and no sentence made of
\* terminators only, and every sentence but the last ends with a terminator.
C28_NoTerminatorOnly ==
    split_pc # "idle" =>
        \A i \in 1..Len(split_sentences) :
            LET sentence == split_sentences[i]
            IN  /\ sentence # <<>>
                /\ \E k \in 1..Len(sentence) : ~IsTerminator(sentence[k])
                /\ i < Len(split_sentences)
                       => IsTerminator(sentence[Len(sentence)])

\* ------------------------------------------------------------------ C29
\* A ConversationTurn is appended to the history.
TurnAppended == Len(conversation_history') > Len(conversation_history)

\* C29: the user_query of the turn appended to the history is the query
\* text sent to the retrieval client for that turn.
C29_QueryFixed ==
    [][TurnAppended =>
          /\ rag_queries # <<>>
          /\ conversation_history'[Len(conversation_history')].user_query
                 = rag_queries[Len(rag_queries)]]_vars

\* ------------------------------------------------------------------ C30
\* close_session has returned.
CloseReturned == gw_pc = "closed"

\* C30: once close_session has returned, the session has no entry in the
\* active-session table, the registry, the Transcription client manager or
\* the Synthesis client manager, and is inactive, whatever the turn pipeline
\* and its own cleanup do before or after.
C30_ClosedSessionGone ==
    CloseReturned =>
        /\ ~active_sessions
        /\ ~reg_present
        /\ ~asr_in
        /\ ~tts_in
        /\ ~is_active

\* close arrived in the middle of a turn, and returned while the cancelled
\* pipeline was still inside its own cleanup.
C30_Witness ==
    /\ CloseReturned
    /\ tasks_started > 0
    /\ current_state = "processing"
    /\ pipe_pc = "cl_asr"
    /\ ~active_sessions /\ ~reg_present /\ ~asr_in /\ ~tts_in /\ ~is_active

====
